---- MODULE Spec2Model ----
(***************************************************************************)
(* Model of the Resend plugin for Astreus: the gateway ResendClient        *)
(* (src/src/client.ts) and the tool adapter ResendPlugin (plugin.ts).      *)
(*                                                                         *)
(* JavaScript values are modelled as strings; Undef is `undefined` and the *)
(* empty string is the empty string, the two falsy values the inputs can   *)
(* carry.  Objects are functions from keys to values, so that a key that   *)
(* is present with the value undefined differs from a key that is absent   *)
(* (object spread tells them apart).  An error message is the sequence of  *)
(* the text fragments a template literal concatenates.                     *)
(***************************************************************************)
EXTENDS Integers, Sequences, FiniteSets, TLC

VARIABLES
    resendConfig,   \* ResendPlugin.resendConfig
    client,         \* ResendPlugin.client: NullClient or a ResendClient
    gateway,        \* a ResendClient the host constructed itself
    tools,          \* ResendPlugin.tools: the Map, as its entries in insertion order
    configTools,    \* ResendPlugin.config.tools
    toolGen,        \* number of initializeTools() runs so far (identity of the built descriptors)
    call            \* the last completed invocation: input, provider requests, outcome

vars == <<resendConfig, client, gateway, tools, configTools, toolGen, call>>

\* Largest number of initializeTools() runs (constructor included) the model follows.
MaxGen == 2

----------------------------------------------------------------------------
(* JavaScript values *)

Undef == "undefined"

\* ToBoolean on the values of the model: undefined and "" are falsy.
Truthy(v) == v # Undef /\ v # ""

\* a || b
OrElse(a, b) == IF Truthy(a) THEN a ELSE b

\* obj.key: undefined when the object has no such property.
Get(obj, key) == IF key \in DOMAIN obj THEN obj[key] ELSE Undef

\* { ...defaults, ...obj }: every own property of obj, the undefined ones
\* included, overrides the default.
Spread(defaults, obj) ==
    [k \in DOMAIN defaults \cup DOMAIN obj |->
        IF k \in DOMAIN obj THEN obj[k] ELSE defaults[k]]

\* new Error(message)
NewError(message) == [isError |-> TRUE, text |-> message]

\* error instanceof Error ? error.message : fallback
MessageOr(error, fallback) == IF error.isError THEN error.text ELSE fallback

\* Outcomes of a call: the provider requests it issued, the calls it made to
\* the gateway's methods, and its result or the value it threw.
Returned(value, requests) ==
    [status |-> "returned", value |-> value, error |-> NewError(<<>>),
     requests |-> requests, calls |-> <<>>]

Threw(error, requests) ==
    [status |-> "threw", value |-> [id |-> Undef, success |-> FALSE],
     error |-> error, requests |-> requests, calls |-> <<>>]

\* The outcome of a gateway method, entered with the options it was given.
Called(method, options, outcome) ==
    [outcome EXCEPT !.calls = <<[method |-> method, options |-> options]>> \o @]

----------------------------------------------------------------------------
(* Message texts of the source *)

NotConfiguredText ==
    "Resend API key not configured. Please set RESEND_API_KEY in your environment or pass it in the constructor."
NoContentText == "Either html or text content must be provided for the email."
NoTemplateIdText == "Template ID must be provided for template emails."
NoResponseEmailText == "Failed to send email: No response from Resend API"
NoResponseTemplateText == "Failed to send template email: No response from Resend API"
UnknownErrorText == "Unknown error"
SendEmailPrefix == "Failed to send email: "
SendTemplatePrefix == "Failed to send template email: "
NotInitializedText == "Resend client not initialized. Call init() first."
BadClientText == "Resend client is not properly configured. Check your API key."
InitFailedPrefix == "Resend plugin initialization failed: "
UnknownMethodPrefix == "Unknown method: "

----------------------------------------------------------------------------
(* ResendClient, src/src/client.ts *)

DefaultFrom == "onboarding@resend.dev"
DefaultRequestTimeout == 10000

\* constructor(config): this.config = { defaultFrom, requestTimeout, ...config }
ResendClientNew(config) ==
    [config |-> Spread([defaultFrom |-> DefaultFrom,
                        requestTimeout |-> DefaultRequestTimeout], config)]

\* isConfigured() as `this.config.apiKey !== undefined`: an empty key counts.
IsConfiguredDefined(c) == Get(c.config, "apiKey") # Undef

\* isConfigured(): !!this.config.apiKey
IsConfigured(c) == Truthy(Get(c.config, "apiKey"))

\* The reply-to address read from the wire-named field of the options.
ReplyToSourceWire(options) == Get(options, "reply_to")

\* options.replyTo, the field line 55 reads the reply-to address from.
ReplyToSource(options) == Get(options, "replyTo")

\* formatEmailOptions(options)
FormatEmailOptions(c, options) ==
    [from |-> OrElse(Get(options, "from"), Get(c.config, "defaultFrom")),
     to |-> Get(options, "to"),
     subject |-> Get(options, "subject"),
     html |-> Get(options, "html"),
     text |-> Get(options, "text"),
     reply_to |-> OrElse(ReplyToSource(options), Get(c.config, "defaultReplyTo")),
     cc |-> Get(options, "cc"),
     bcc |-> Get(options, "bcc"),
     attachments |-> Get(options, "attachments"),
     tags |-> Get(options, "tags")]

\* The template payload built on top of formatEmailOptions(options), which
\* keeps subject, html and text in it.
FormatTemplateOptionsOnEmail(c, options) ==
    LET base == FormatEmailOptions(c, options) IN
    [k \in DOMAIN base \cup {"template", "data"} |->
        IF k = "template" THEN Get(options, "templateId")
        ELSE IF k = "data" THEN Get(options, "templateData")
        ELSE base[k]]

\* The payload literal of sendTemplateEmail.
FormatTemplateOptions(c, options) ==
    [from |-> OrElse(Get(options, "from"), Get(c.config, "defaultFrom")),
     to |-> Get(options, "to"),
     reply_to |-> OrElse(Get(options, "replyTo"), Get(c.config, "defaultReplyTo")),
     cc |-> Get(options, "cc"),
     bcc |-> Get(options, "bcc"),
     tags |-> Get(options, "tags"),
     template |-> Get(options, "templateId"),
     data |-> Get(options, "templateData")]

\* What this.client.emails.send(...) can do: throw an Error, throw a value
\* that is no Error (thrown.text is its String()), or resolve to no response,
\* to a response without data, or to data with an id.
ProviderThrows(r) == r.kind = "throw"

\* The check as `!response` alone: a response without a usable id passes.
NoUsableIdResponseOnly(r) == r.response = "none"

\* !response || !response.data?.id
NoUsableId(r) == r.response = "none" \/ r.response = "nodata" \/ ~Truthy(r.id)

\* The try block of sendEmail without the html/text check of lines 74-76.
SendEmailTryUnchecked(c, options, r) ==
    IF ~IsConfigured(c) THEN Threw(NewError(<<NotConfiguredText>>), <<>>)
    ELSE LET requests == <<FormatEmailOptions(c, options)>> IN
         IF ProviderThrows(r) THEN Threw(r.thrown, requests)
         ELSE IF NoUsableId(r) THEN Threw(NewError(<<NoResponseEmailText>>), requests)
         ELSE Returned([id |-> r.id, success |-> TRUE], requests)

\* The body of the try block of sendEmail, lines 70-89.
SendEmailTry(c, options, r) ==
    IF ~IsConfigured(c) THEN Threw(NewError(<<NotConfiguredText>>), <<>>)
    ELSE IF ~Truthy(Get(options, "html")) /\ ~Truthy(Get(options, "text"))
         THEN Threw(NewError(<<NoContentText>>), <<>>)
    ELSE LET requests == <<FormatEmailOptions(c, options)>> IN
         IF ProviderThrows(r) THEN Threw(r.thrown, requests)
         ELSE IF NoUsableId(r) THEN Threw(NewError(<<NoResponseEmailText>>), requests)
         ELSE Returned([id |-> r.id, success |-> TRUE], requests)

\* The catch block of sendEmail, lines 90-95.
SendEmailCatch(error) ==
    NewError(<<SendEmailPrefix>> \o MessageOr(error, <<UnknownErrorText>>))

\* ResendClient.sendEmail(options), the provider answering r.
ClientSendEmail(c, options, r) ==
    LET t == SendEmailTry(c, options, r) IN
    Called("sendEmail", options,
           IF t.status = "threw" THEN Threw(SendEmailCatch(t.error), t.requests)
           ELSE t)

\* The try block of sendTemplateEmail without the templateId check of lines
\* 109-111.
SendTemplateTryUnchecked(c, options, r) ==
    IF ~IsConfigured(c) THEN Threw(NewError(<<NotConfiguredText>>), <<>>)
    ELSE LET requests == <<FormatTemplateOptions(c, options)>> IN
         IF ProviderThrows(r) THEN Threw(r.thrown, requests)
         ELSE IF NoUsableId(r) THEN Threw(NewError(<<NoResponseTemplateText>>), requests)
         ELSE Returned([id |-> r.id, success |-> TRUE], requests)

\* The body of the try block of sendTemplateEmail, lines 105-133.
SendTemplateTry(c, options, r) ==
    IF ~IsConfigured(c) THEN Threw(NewError(<<NotConfiguredText>>), <<>>)
    ELSE IF ~Truthy(Get(options, "templateId"))
         THEN Threw(NewError(<<NoTemplateIdText>>), <<>>)
    ELSE LET requests == <<FormatTemplateOptions(c, options)>> IN
         IF ProviderThrows(r) THEN Threw(r.thrown, requests)
         ELSE IF NoUsableId(r) THEN Threw(NewError(<<NoResponseTemplateText>>), requests)
         ELSE Returned([id |-> r.id, success |-> TRUE], requests)

\* The catch block of sendTemplateEmail, lines 134-139.
SendTemplateCatch(error) ==
    NewError(<<SendTemplatePrefix>> \o MessageOr(error, <<UnknownErrorText>>))

\* ResendClient.sendTemplateEmail(options), the provider answering r.
ClientSendTemplateEmail(c, options, r) ==
    LET t == SendTemplateTry(c, options, r) IN
    Called("sendTemplateEmail", options,
           IF t.status = "threw" THEN Threw(SendTemplateCatch(t.error), t.requests)
           ELSE t)

----------------------------------------------------------------------------
(* ResendPlugin, plugin.ts (src/unnamed/part_000) *)

\* this.client = null
NullClient == [config |-> [isNull |-> TRUE]]

IsNull(c) == "isNull" \in DOMAIN c.config

\* Tool names are sequences of text segments, so that String.replace can be
\* computed on them.
EmailToolName == <<"resend_", "send_email">>
TemplateToolName == <<"resend_", "send_template_email">>

\* getManifests(): name and required parameters of the two manifests.
Manifests ==
    <<[name |-> EmailToolName, required |-> <<"to", "subject">>],
      [name |-> TemplateToolName,
       required |-> <<"to", "templateId", "templateData">>]>>

\* name.replaceAll(pattern, ''): every occurrence of the pattern is removed.
RECURSIVE ReplaceAll(_, _)
ReplaceAll(name, pattern) ==
    IF name = <<>> THEN <<>>
    ELSE IF Head(name) = pattern THEN ReplaceAll(Tail(name), pattern)
    ELSE <<Head(name)>> \o ReplaceAll(Tail(name), pattern)

\* name.replace(pattern, ''): the first occurrence of the pattern is removed.
RECURSIVE ReplaceFirst(_, _)
ReplaceFirst(name, pattern) ==
    IF name = <<>> THEN <<>>
    ELSE IF Head(name) = pattern THEN Tail(name)
    ELSE <<Head(name)>> \o ReplaceFirst(Tail(name), pattern)

\* The Plugin object initializeTools() builds for a manifest; gen tells the
\* objects of one initializeTools() run from those of another.
BuiltinTool(manifest, gen) ==
    [name |-> manifest.name, origin |-> "manifest", gen |-> gen]

\* A registry kept as a list that set() only ever appends to.
MapSetAppend(entries, key, value) ==
    Append(entries, [key |-> key, value |-> value])

\* Map.prototype.set on the entries in insertion order: an existing key keeps
\* its place and gets the new value, a new key goes last.
MapSet(entries, key, value) ==
    IF \E i \in 1..Len(entries) : entries[i].key = key
    THEN [i \in 1..Len(entries) |->
            IF entries[i].key = key THEN [key |-> key, value |-> value]
            ELSE entries[i]]
    ELSE Append(entries, [key |-> key, value |-> value])

MapHas(entries, key) == \E i \in 1..Len(entries) : entries[i].key = key

\* Map.prototype.delete
MapDelete(entries, key) == SelectSeq(entries, LAMBDA e : e.key # key)

\* Array.from(map.values())
MapValues(entries) == [i \in 1..Len(entries) |-> entries[i].value]

\* getTools()
GetTools == MapValues(tools)

\* The loop of initializeTools(), lines 86-134, on the entries `entries`.
RECURSIVE SetBuiltins(_, _, _)
SetBuiltins(entries, manifests, gen) ==
    IF manifests = <<>> THEN entries
    ELSE SetBuiltins(MapSet(entries, Head(manifests).name,
                            BuiltinTool(Head(manifests), gen)),
                     Tail(manifests), gen)

\* initializeTools() building the Map anew, which drops what the host registered.
InitializeToolsFresh(entries, gen) == SetBuiltins(<<>>, Manifests, gen)

\* initializeTools(), lines 82-138, on the entries of this.tools.
InitializeTools(entries, gen) == SetBuiltins(entries, Manifests, gen)

\* The options object ResendPlugin.sendEmail builds, lines 316-325.
\* The options object as the parameter object itself, passed on whole.
EmailOptionsOfAll(params) == params

EmailOptionsOf(params) ==
    [to |-> Get(params, "to"), subject |-> Get(params, "subject"),
     html |-> Get(params, "html"), text |-> Get(params, "text"),
     from |-> Get(params, "from"), replyTo |-> Get(params, "replyTo"),
     cc |-> Get(params, "cc"), bcc |-> Get(params, "bcc")]

EmptyMap == "{}"

\* The options object ResendPlugin.sendTemplateEmail builds, lines 345-353.
TemplateOptionsOf(params) ==
    [to |-> Get(params, "to"), templateId |-> Get(params, "templateId"),
     templateData |-> OrElse(Get(params, "templateData"), EmptyMap),
     from |-> Get(params, "from"), replyTo |-> Get(params, "replyTo"),
     cc |-> Get(params, "cc"), bcc |-> Get(params, "bcc")]

\* error instanceof Error ? error.message : String(error): the text of the
\* value either way.
MessageOrString(error) == error.text

\* ResendPlugin.sendEmail(params) with this.client = c.
PluginSendEmailOn(c, params, r) ==
    IF IsNull(c) THEN Threw(NewError(<<NotInitializedText>>), <<>>)
    ELSE LET t == ClientSendEmail(c, EmailOptionsOf(params), r) IN
         IF t.status = "threw"
         THEN [t EXCEPT !.error =
                    NewError(<<SendEmailPrefix>> \o MessageOrString(t.error))]
         ELSE t

\* ResendPlugin.sendTemplateEmail(params) with this.client = c.
PluginSendTemplateOn(c, params, r) ==
    IF IsNull(c) THEN Threw(NewError(<<NotInitializedText>>), <<>>)
    ELSE LET t == ClientSendTemplateEmail(c, TemplateOptionsOf(params), r) IN
         IF t.status = "threw"
         THEN [t EXCEPT !.error =
                    NewError(<<SendTemplatePrefix>> \o MessageOrString(t.error))]
         ELSE t

\* `if (!this.client)` at the head of a descriptor's execute, line 93.
ExecuteGuardFails(c) == IsNull(c)

\* The execute closure initializeTools() builds for the manifest named
\* manifestName, lines 91-129, with this.client = c.  Every value thrown
\* inside its try block is an Error, which its catch block rethrows as it is;
\* a result is a fresh object, never the params object lines 114-118 copy.
ExecuteOn(c, manifestName, params, r) ==
    IF ExecuteGuardFails(c) THEN Threw(NewError(<<NotInitializedText>>), <<>>)
    ELSE LET methodName == ReplaceFirst(manifestName, "resend_") IN
         IF methodName = <<"send_email">> THEN PluginSendEmailOn(c, params, r)
         ELSE IF methodName = <<"send_template_email">>
              THEN PluginSendTemplateOn(c, params, r)
         ELSE Threw(NewError(<<UnknownMethodPrefix>> \o methodName), <<>>)

----------------------------------------------------------------------------
(* Inputs: configurations, parameter objects, provider answers *)

\* A configuration object: apiKey a, defaultReplyTo rt, and defaultFrom f
\* when hasFrom (the object built from the environment always carries the
\* three keys, with the value undefined for a variable that is not set).
ConfigOf(a, hasFrom, f, rt) ==
    [k \in {"apiKey", "defaultReplyTo"} \cup (IF hasFrom THEN {"defaultFrom"} ELSE {}) |->
        IF k = "apiKey" THEN a ELSE IF k = "defaultFrom" THEN f ELSE rt]

ApiKeys == {Undef, "", "re_123"}

Configs ==
    {ConfigOf(a, FALSE, Undef, rt) : a \in ApiKeys, rt \in {Undef, "replies@acme.dev"}}
    \cup {ConfigOf(a, TRUE, f, rt) :
            a \in ApiKeys, f \in {Undef, "sender@acme.dev"},
            rt \in {Undef, "replies@acme.dev"}}

LifecycleConfigs ==
    {ConfigOf(a, TRUE, f, Undef) : a \in ApiKeys, f \in {Undef, "sender@acme.dev"}}

\* The fields of a parameter object other than the six ParamsOf takes.
NoExtras ==
    [reply_to |-> Undef, cc |-> Undef, bcc |-> Undef, attachments |-> Undef,
     tags |-> Undef, templateId |-> Undef, templateData |-> Undef]

WireExtras ==
    [reply_to |-> "wire@acme.dev", cc |-> "cc@acme.dev", bcc |-> "bcc@acme.dev",
     attachments |-> "[report.pdf]", tags |-> "[{name:kind,value:test}]",
     templateId |-> Undef, templateData |-> Undef]

TemplateExtras(id, data) ==
    [reply_to |-> "wire@acme.dev", cc |-> Undef, bcc |-> Undef, attachments |-> Undef,
     tags |-> "[{name:kind,value:test}]", templateId |-> id, templateData |-> data]

\* A loosely typed parameter (or options) object; an absent property reads
\* as undefined.
ParamsOf(to, subject, html, text, from, replyTo, x) ==
    [to |-> to, subject |-> subject, html |-> html, text |-> text, from |-> from,
     replyTo |-> replyTo, reply_to |-> x.reply_to, cc |-> x.cc, bcc |-> x.bcc,
     attachments |-> x.attachments, tags |-> x.tags, templateId |-> x.templateId,
     templateData |-> x.templateData]

ExtrasSet ==
    {NoExtras, WireExtras, TemplateExtras("t1", "{name:X}"),
     TemplateExtras("t1", Undef), TemplateExtras("", "{name:X}")}

WideParams ==
    {ParamsOf(to, subject, html, text, from, replyTo, x) :
        to \in {Undef, "a@b.com"}, subject \in {Undef, "Hi"},
        html \in {Undef, "", "<p>hi</p>"}, text \in {Undef, "hi"},
        from \in {Undef, "", "me@acme.dev"},
        replyTo \in {Undef, "", "back@acme.dev"}, x \in ExtrasSet}

NarrowParams ==
    {ParamsOf("a@b.com", "Hi", "<p>hi</p>", Undef, Undef, Undef, NoExtras),
     ParamsOf("a@b.com", "Hi", Undef, Undef, Undef, Undef, NoExtras),
     ParamsOf(Undef, "Hi", Undef, "hi", "me@acme.dev", Undef, WireExtras),
     ParamsOf("a@b.com", Undef, Undef, Undef, Undef, Undef,
              TemplateExtras("t1", "{name:X}")),
     ParamsOf("a@b.com", Undef, Undef, Undef, Undef, Undef,
              TemplateExtras("", "{name:X}"))}

NoParams == ParamsOf(Undef, Undef, Undef, Undef, Undef, Undef, NoExtras)

NothingThrown == [isError |-> FALSE, text |-> <<>>]

\* The provider answers the model follows.
Responses ==
    {[kind |-> "throw", thrown |-> NewError(<<"connect ECONNRESET">>),
      response |-> "none", id |-> Undef],
     [kind |-> "throw", thrown |-> [isError |-> FALSE, text |-> <<"rate limit exceeded">>],
      response |-> "none", id |-> Undef],
     [kind |-> "resolve", thrown |-> NothingThrown, response |-> "none", id |-> Undef],
     [kind |-> "resolve", thrown |-> NothingThrown, response |-> "nodata", id |-> Undef],
     [kind |-> "resolve", thrown |-> NothingThrown, response |-> "data", id |-> ""],
     [kind |-> "resolve", thrown |-> NothingThrown, response |-> "data", id |-> "abc123"]}

NoResponse ==
    [kind |-> "unused", thrown |-> NothingThrown, response |-> "none", id |-> Undef]

\* Names and descriptors the host registers and removes.
PingToolName == <<"resend_", "ping">>

ToolNames == {EmailToolName, TemplateToolName, PingToolName}

HostTools ==
    {[name |-> PingToolName, origin |-> "host", gen |-> 1],
     [name |-> EmailToolName, origin |-> "host", gen |-> 1]}

\* The descriptors initializeTools() has built so far.
BuiltinTools ==
    {BuiltinTool(Manifests[i], g) : i \in 1..Len(Manifests), g \in 1..toolGen}

NoTool == [name |-> <<>>, origin |-> "none", gen |-> 0]

----------------------------------------------------------------------------
(* The state machine *)

SendOps ==
    {"client.sendEmail", "client.sendTemplateEmail", "plugin.sendEmail",
     "plugin.sendTemplateEmail", "execute"}

\* The registry as the host sees it: the Map and the derived list.
Registry == [tools |-> tools, configTools |-> configTools]

\* The record of a finished send: the provider's answer is part of it only
\* when a request was issued.
SendRecord(op, tool, input, r, outcome) ==
    [op |-> op, tool |-> tool, input |-> input,
     response |-> IF outcome.requests = <<>> THEN NoResponse ELSE r,
     outcome |-> outcome, before |-> <<>>, follows |-> FALSE, had |-> FALSE]

NoCall ==
    [op |-> "none", tool |-> NoTool, input |-> NoParams, response |-> NoResponse,
     outcome |-> Returned(Undef, <<>>), before |-> <<>>, follows |-> FALSE,
     had |-> FALSE]

\* One invocation at a time is followed: a send starts when the outcome of
\* the previous one has been taken.
Idle == call.op \notin SendOps

\* new ResendPlugin(config), lines 26-43.
InitWith(configs) ==
    /\ resendConfig \in configs
    /\ client = NullClient
    /\ gateway = ResendClientNew(resendConfig)
    /\ tools = InitializeTools(<<>>, 1)
    /\ configTools = MapValues(tools)
    /\ toolGen = 1
    /\ call = NoCall

Init == InitWith(LifecycleConfigs)

SendInit == InitWith(Configs)

\* ResendPlugin.init(), lines 48-69.
PluginInit ==
    LET c == ResendClientNew(resendConfig) IN
    /\ IsConfigured(c) => toolGen < MaxGen
    /\ client' = c
    /\ IF IsConfigured(c)
       THEN /\ tools' = InitializeTools(tools, toolGen + 1)
            /\ configTools' = MapValues(tools')
            /\ toolGen' = toolGen + 1
            /\ call' = [NoCall EXCEPT !.op = "init", !.before = Registry]
       ELSE /\ UNCHANGED <<tools, configTools, toolGen>>
            /\ call' = [NoCall EXCEPT !.op = "init", !.before = Registry,
                          !.outcome = Threw(NewError(<<InitFailedPrefix, "Error: ",
                                                       BadClientText>>), <<>>)]
    /\ UNCHANGED <<resendConfig, gateway>>

\* ResendPlugin.registerTool(tool), lines 271-274.
RegisterTool(t) ==
    /\ tools' = MapSet(tools, t.name, t)
    /\ configTools' = MapValues(tools')
    /\ call' = [NoCall EXCEPT !.op = "registerTool", !.tool = t,
                  !.before = Registry, !.had = MapHas(tools, t.name)]
    /\ UNCHANGED <<resendConfig, client, gateway, toolGen>>

\* removeTool(name) without the resync of config.tools of line 281.
RemoveToolUnsynced(name) ==
    LET follows == call.op = "registerTool" /\ call.tool.name = name IN
    /\ tools' = MapDelete(tools, name)
    /\ call' = [NoCall EXCEPT !.op = "removeTool", !.tool = [NoTool EXCEPT !.name = name],
                  !.outcome = Returned(MapHas(tools, name), <<>>),
                  !.before = IF follows THEN call.before ELSE Registry,
                  !.follows = follows,
                  !.had = IF follows THEN call.had ELSE MapHas(tools, name)]
    /\ UNCHANGED <<resendConfig, client, gateway, configTools, toolGen>>

\* ResendPlugin.removeTool(name), lines 279-283.  The record tells whether
\* the call directly follows registerTool of a tool of that name, and then
\* keeps the registry from before that registerTool.
RemoveTool(name) ==
    LET follows == call.op = "registerTool" /\ call.tool.name = name IN
    /\ tools' = MapDelete(tools, name)
    /\ configTools' = MapValues(tools')
    /\ call' = [NoCall EXCEPT !.op = "removeTool", !.tool = [NoTool EXCEPT !.name = name],
                  !.outcome = Returned(MapHas(tools, name), <<>>),
                  !.before = IF follows THEN call.before ELSE Registry,
                  !.follows = follows,
                  !.had = IF follows THEN call.had ELSE MapHas(tools, name)]
    /\ UNCHANGED <<resendConfig, client, gateway, toolGen>>

\* ResendClient.sendEmail(options) on the host's own gateway.
GatewaySendEmail(options, r) ==
    /\ Idle
    /\ call' = SendRecord("client.sendEmail", NoTool, options, r,
                          ClientSendEmail(gateway, options, r))
    /\ UNCHANGED <<resendConfig, client, gateway, tools, configTools, toolGen>>

\* ResendClient.sendTemplateEmail(options) on the host's own gateway.
GatewaySendTemplateEmail(options, r) ==
    /\ Idle
    /\ call' = SendRecord("client.sendTemplateEmail", NoTool, options, r,
                          ClientSendTemplateEmail(gateway, options, r))
    /\ UNCHANGED <<resendConfig, client, gateway, tools, configTools, toolGen>>

\* ResendPlugin.sendEmail(params), lines 310-334.
PluginSendEmail(params, r) ==
    /\ Idle
    /\ call' = SendRecord("plugin.sendEmail", NoTool, params, r,
                          PluginSendEmailOn(client, params, r))
    /\ UNCHANGED <<resendConfig, client, gateway, tools, configTools, toolGen>>

\* ResendPlugin.sendTemplateEmail(params), lines 339-362.
PluginSendTemplateEmail(params, r) ==
    /\ Idle
    /\ call' = SendRecord("plugin.sendTemplateEmail", NoTool, params, r,
                          PluginSendTemplateOn(client, params, r))
    /\ UNCHANGED <<resendConfig, client, gateway, tools, configTools, toolGen>>

\* tool.execute(params) of a descriptor initializeTools() built.
ExecuteTool(tool, params, r) ==
    /\ Idle
    /\ tool.origin = "manifest"
    /\ call' = SendRecord("execute", tool, params, r,
                          ExecuteOn(client, tool.name, params, r))
    /\ UNCHANGED <<resendConfig, client, gateway, tools, configTools, toolGen>>

\* The caller takes the outcome of the finished send.
Settle ==
    /\ ~Idle
    /\ call' = NoCall
    /\ UNCHANGED <<resendConfig, client, gateway, tools, configTools, toolGen>>

\* The plugin's life: init, registry changes and tool invocations in any order.
Next ==
    \/ PluginInit
    \/ \E t \in HostTools \cup BuiltinTools : RegisterTool(t)
    \/ \E name \in ToolNames : RemoveTool(name)
    \/ Idle /\ \E p \in NarrowParams, r \in Responses : PluginSendEmail(p, r)
    \/ Idle /\ \E p \in NarrowParams, r \in Responses : PluginSendTemplateEmail(p, r)
    \/ Idle /\ \E t \in BuiltinTools, p \in NarrowParams, r \in Responses :
                  ExecuteTool(t, p, r)
    \/ Settle

Spec == Init /\ [][Next]_vars

\* The send paths on every configuration and parameter object of the model.
SendNext ==
    \/ PluginInit
    \/ Idle /\ \E p \in WideParams, r \in Responses : GatewaySendEmail(p, r)
    \/ Idle /\ \E p \in WideParams, r \in Responses : GatewaySendTemplateEmail(p, r)
    \/ Idle /\ \E p \in WideParams, r \in Responses : PluginSendEmail(p, r)
    \/ Idle /\ \E p \in WideParams, r \in Responses : PluginSendTemplateEmail(p, r)
    \/ Idle /\ \E t \in BuiltinTools, p \in WideParams, r \in Responses :
                  ExecuteTool(t, p, r)
    \/ Settle

\* Manifest names a subclass that overrides getManifests() can hand to
\* initializeTools(), beside the two of this class.
DispatchNames ==
    {EmailToolName, TemplateToolName, PingToolName, <<"send_email">>,
     <<"resend_", "resend_", "send_email">>,
     <<"mail_", "resend_", "send_template_email">>}

\* The descriptors initializeTools() builds for manifests of these names.
DispatchTools ==
    {BuiltinTool([name |-> n, required |-> <<>>], g) :
        n \in DispatchNames, g \in 1..toolGen}

\* The execute closure on every manifest name of the model.
DispatchNext ==
    \/ PluginInit
    \/ Idle /\ \E t \in DispatchTools, p \in NarrowParams, r \in Responses :
                  ExecuteTool(t, p, r)
    \/ Settle

DispatchSpec == Init /\ [][DispatchNext]_vars

SendSpec == SendInit /\ [][SendNext]_vars

----------------------------------------------------------------------------
(* Vocabulary of the properties *)

GatewayOps == {"client.sendEmail", "client.sendTemplateEmail"}
RawSendOps == {"client.sendEmail", "plugin.sendEmail"}
TemplateSendOps == {"client.sendTemplateEmail", "plugin.sendTemplateEmail"}

\* The last call was a raw (respectively templated) send, made directly or
\* through a descriptor.
IsRawSend ==
    call.op \in RawSendOps \/ (call.op = "execute" /\ call.tool.name = EmailToolName)

IsTemplateSend ==
    call.op \in TemplateSendOps
    \/ (call.op = "execute" /\ call.tool.name = TemplateToolName)

\* The gateway the last send was made on: the host's own one, or the plugin's.
CallGateway == IF call.op \in GatewayOps THEN gateway ELSE client

\* The last send got as far as the gateway's method.
ReachedGateway == call.op \in GatewayOps \/ (call.op \in SendOps /\ ~IsNull(client))

Requests == call.outcome.requests
ThrewError == call.outcome.status = "threw"
ErrorText == call.outcome.error.text

\* The innermost message of the error, the one the prefixes were put before.
Innermost(text) == text[Len(text)]

\* The prefixes the catch blocks put before the message of a send of this kind.
PrefixOf(op, raw) ==
    LET one == IF raw THEN <<SendEmailPrefix>> ELSE <<SendTemplatePrefix>> IN
    IF op \in GatewayOps THEN one ELSE one \o one

\* msg contains part as a run of consecutive fragments.
Contains(msg, part) ==
    \E i \in 0..(Len(msg) - Len(part)) :
        \A j \in 1..Len(part) : msg[i + j] = part[j]

\* The credential the configuration carries is absent or empty.
NoCredential == Get(resendConfig, "apiKey") \in {Undef, ""}

\* The default sender and reply-to address of the configuration.
ConfiguredDefaultFrom ==
    IF "defaultFrom" \in DOMAIN resendConfig THEN resendConfig.defaultFrom
    ELSE DefaultFrom

ConfiguredDefaultReplyTo == Get(resendConfig, "defaultReplyTo")

----------------------------------------------------------------------------
(* C1 *)

\* C1: when the configuration's credential is absent or empty, isConfigured()
\* is false, and every sendEmail and sendTemplateEmail call on the gateway,
\* direct or through the plugin, throws the configuration error and issues
\* no provider request.
C1_NoCredentialNoSend ==
    NoCredential =>
        /\ ~IsConfigured(gateway)
        /\ ~IsNull(client) => ~IsConfigured(client)
        /\ ReachedGateway =>
            /\ ThrewError
            /\ call.outcome.error.isError
            /\ ErrorText = PrefixOf(call.op, IsRawSend) \o <<NotConfiguredText>>
            /\ Requests = <<>>

\* A well-formed raw send on a gateway with an empty credential was refused.
C1_Witness ==
    /\ Get(resendConfig, "apiKey") = ""
    /\ call.op = "client.sendEmail"
    /\ Truthy(call.input.to) /\ Truthy(call.input.html)
    /\ ThrewError
    /\ Requests = <<>>

----------------------------------------------------------------------------
(* C2 *)

\* The plugin reached Initialized: init() built a client and found it configured.
Initialized == ~IsNull(client) /\ IsConfigured(client)

\* C2: while the plugin has not reached Initialized, executing a built-in
\* tool throws the "not initialized" error and issues no provider request.
C2_NotInitializedRefused ==
    (call.op = "execute" /\ ~Initialized) =>
        /\ ThrewError
        /\ ErrorText = <<NotInitializedText>>
        /\ Requests = <<>>

----------------------------------------------------------------------------
(* C3 *)

\* C3: a sendEmail call on a configured gateway with neither html nor text
\* throws the validation error and issues no provider request.
C3_NoContentRefused ==
    (IsRawSend /\ ReachedGateway /\ IsConfigured(CallGateway)
     /\ call.input.html = Undef /\ call.input.text = Undef) =>
        /\ ThrewError
        /\ call.outcome.error.isError
        /\ ErrorText = PrefixOf(call.op, TRUE) \o <<NoContentText>>
        /\ Requests = <<>>

\* A raw send with recipient and subject but no body was refused by a
\* configured gateway.
C3_Witness ==
    /\ call.op = "client.sendEmail"
    /\ IsConfigured(gateway)
    /\ Truthy(call.input.to) /\ Truthy(call.input.subject)
    /\ call.input.html = Undef /\ call.input.text = Undef
    /\ ThrewError

----------------------------------------------------------------------------
(* C4 *)

\* C4: a raw send (sendEmail, or the resend_send_email tool) on a configured
\* gateway whose `to` or `subject` is missing throws a validation error and
\* issues no provider request.
C4_MissingFieldRefused ==
    (IsRawSend /\ ReachedGateway /\ IsConfigured(CallGateway)
     /\ (call.input.to = Undef \/ call.input.subject = Undef)) =>
        /\ ThrewError
        /\ Innermost(ErrorText) = NoContentText
        /\ Requests = <<>>

----------------------------------------------------------------------------
(* C5 *)

\* The payload of the one request the last send issued.
Payload == Requests[1]

\* C5 as stated: the payload's from (reply_to) is the input's from (replyTo)
\* whenever the input carries one, and the configured default when it
\* carries none; reply_to never comes from an input field named reply_to.
C5_ExplicitOrDefault ==
    (IsRawSend /\ Requests # <<>>) =>
        /\ Payload.from =
             IF call.input.from # Undef THEN call.input.from
             ELSE ConfiguredDefaultFrom
        /\ Payload.reply_to =
             IF call.input.replyTo # Undef THEN call.input.replyTo
             ELSE ConfiguredDefaultReplyTo
        /\ Truthy(call.input.reply_to) => Payload.reply_to # call.input.reply_to

\* C5, amended: the payload's from (reply_to) is the input's from (replyTo)
\* whenever the input carries a non-empty one, and the configured default
\* when it carries none or an empty one; reply_to never comes from an input
\* field named reply_to.
C5_NonEmptyOrDefault ==
    (IsRawSend /\ Requests # <<>>) =>
        /\ Payload.from =
             IF Truthy(call.input.from) THEN call.input.from
             ELSE ConfiguredDefaultFrom
        /\ Payload.reply_to =
             IF Truthy(call.input.replyTo) THEN call.input.replyTo
             ELSE ConfiguredDefaultReplyTo
        /\ Truthy(call.input.reply_to) => Payload.reply_to # call.input.reply_to

\* A raw send with an explicit sender, no replyTo and a reply_to field
\* reached the provider on a gateway with a default reply-to address.
C5_Witness ==
    /\ IsRawSend /\ Requests # <<>>
    /\ Truthy(call.input.from)
    /\ call.input.replyTo = Undef
    /\ Truthy(call.input.reply_to)
    /\ Truthy(ConfiguredDefaultReplyTo)
    /\ Payload.from = call.input.from

----------------------------------------------------------------------------
(* C6 *)

\* The last templated send went through the adapter, which builds the
\* gateway's options from the parameters.
ThroughAdapter == call.op \notin GatewayOps

\* C6 as stated: the payload of a templated send carries template = the
\* input templateId and data = the input templateData, and has no subject,
\* html or text field.
C6_TemplatePayload ==
    (IsTemplateSend /\ Requests # <<>>) =>
        /\ Payload.template = call.input.templateId
        /\ Payload.data = call.input.templateData
        /\ DOMAIN Payload \cap {"subject", "html", "text"} = {}

\* C6, amended: the payload carries template = the input templateId and
\* data = the input templateData, except that a send through the adapter
\* whose templateData is missing or empty carries the empty map; it has no
\* subject, html or text field.
C6_TemplatePayloadOrEmptyMap ==
    (IsTemplateSend /\ Requests # <<>>) =>
        /\ Payload.template = call.input.templateId
        /\ Payload.data =
             IF ThroughAdapter /\ ~Truthy(call.input.templateData) THEN EmptyMap
             ELSE call.input.templateData
        /\ DOMAIN Payload \cap {"subject", "html", "text"} = {}

\* A templated send through the adapter whose parameters carry subject, html
\* and text but no templateData reached the provider.
C6_Witness ==
    /\ IsTemplateSend /\ Requests # <<>>
    /\ ThroughAdapter
    /\ Truthy(call.input.subject) /\ Truthy(call.input.html) /\ Truthy(call.input.text)
    /\ call.input.templateData = Undef
    /\ Payload.template = "t1"
    /\ Payload.data = EmptyMap

----------------------------------------------------------------------------
(* C7 *)

\* C7 as stated: a sendTemplateEmail call whose templateId is missing throws
\* the validation error and issues no provider request, whether or not the
\* gateway is configured.
C7_MissingTemplateIdRefused ==
    (IsTemplateSend /\ ReachedGateway /\ call.input.templateId = Undef) =>
        /\ ThrewError
        /\ ErrorText = PrefixOf(call.op, FALSE) \o <<NoTemplateIdText>>
        /\ Requests = <<>>

\* C7, amended: a sendTemplateEmail call whose templateId is missing issues
\* no provider request and throws the validation error on a configured
\* gateway, the configuration error on a gateway that is not configured.
C7_MissingTemplateIdRefusedByKind ==
    (IsTemplateSend /\ ReachedGateway /\ call.input.templateId = Undef) =>
        /\ ThrewError
        /\ call.outcome.error.isError
        /\ ErrorText = PrefixOf(call.op, FALSE)
                         \o <<IF IsConfigured(CallGateway) THEN NoTemplateIdText
                              ELSE NotConfiguredText>>
        /\ Requests = <<>>

\* A templated send without templateId was refused by a configured gateway.
C7_Witness ==
    /\ call.op = "client.sendTemplateEmail"
    /\ IsConfigured(gateway)
    /\ call.input.templateId = Undef
    /\ Truthy(call.input.to)
    /\ Innermost(ErrorText) = NoTemplateIdText

----------------------------------------------------------------------------
(* C8 *)

\* The provider answered the request with data carrying a non-empty id.
AnsweredWithId ==
    /\ Len(Requests) = 1
    /\ call.response.kind = "resolve"
    /\ call.response.response = "data"
    /\ call.response.id \notin {Undef, ""}

\* C8: a send issues at most one provider request; it returns exactly when
\* the request was answered with a non-empty id, and then returns
\* {id: that id, success: true}; otherwise it throws.
C8_OneRequestIdOrThrow ==
    call.op \in SendOps =>
        /\ Len(Requests) <= 1
        /\ call.outcome.status \in {"returned", "threw"}
        /\ (call.outcome.status = "returned") <=> AnsweredWithId
        /\ call.outcome.status = "returned" =>
             call.outcome.value = [id |-> call.response.id, success |-> TRUE]

\* A send returned the provider's id.
C8_Witness ==
    /\ call.op \in SendOps
    /\ call.outcome.status = "returned"
    /\ call.outcome.value.id = "abc123"

----------------------------------------------------------------------------
(* C9 *)

\* C9: when the provider call throws, whatever it throws, the caller gets an
\* Error whose message contains the text of what was thrown.
C9_ProviderFailureTextKept ==
    (call.op \in SendOps /\ call.response.kind = "throw") =>
        /\ ThrewError
        /\ call.outcome.error.isError
        /\ Contains(ErrorText, call.response.thrown.text)

----------------------------------------------------------------------------
(* C10 *)

\* C10 as stated: registerTool(t) followed by removeTool(t.name) leaves the
\* registry as it was before the registerTool call, also when a tool named
\* t.name was registered already.
C10_RegisterRemoveRestores ==
    (call.op = "removeTool" /\ call.follows) => Registry = call.before

\* C10, amended: registerTool(t) followed by removeTool(t.name) leaves the
\* registry as it was before the registerTool call when no tool named t.name
\* was registered then; when one was, it leaves that registry without the
\* tool of that name.
C10_RegisterRemoveRestoresNew ==
    (call.op = "removeTool" /\ call.follows) =>
        /\ call.outcome.value = TRUE
        /\ ~call.had => Registry = call.before
        /\ call.had =>
             /\ tools = MapDelete(call.before.tools, call.tool.name)
             /\ configTools = MapValues(tools)

\* A new tool was registered and removed again while other tools stayed.
C10_Witness ==
    /\ call.op = "removeTool" /\ call.follows /\ ~call.had
    /\ call.tool.name = PingToolName
    /\ Len(tools) >= 1
    /\ Registry = call.before

----------------------------------------------------------------------------
(* C11 *)

\* The tool of that name is in the entries.
Registered(entries, name) == \E i \in 1..Len(entries) : entries[i].key = name

\* config.tools lists the descriptors of the Map in the Map's order, every
\* descriptor is filed under its own name, and no name occurs twice.
RegistryInSync ==
    /\ Len(configTools) = Len(tools)
    /\ \A i \in 1..Len(tools) :
        /\ configTools[i] = tools[i].value
        /\ tools[i].key = tools[i].value.name
    /\ configTools = GetTools
    /\ \A i, j \in 1..Len(tools) : tools[i].key = tools[j].key => i = j

\* A registerTool step replaces the entry of a registered name in its place
\* and appends the entry of a new name; a removeTool step returns whether the
\* name was registered.
RegistryStep ==
    /\ call'.op = "registerTool" =>
         LET t == call'.tool IN
         IF Registered(tools, t.name)
         THEN /\ Len(tools') = Len(tools)
              /\ \A i \in 1..Len(tools) :
                   tools'[i] = IF tools[i].key = t.name
                               THEN [key |-> t.name, value |-> t]
                               ELSE tools[i]
         ELSE tools' = Append(tools, [key |-> t.name, value |-> t])
    /\ call'.op = "removeTool" =>
         /\ call'.outcome.value = Registered(tools, call'.tool.name)
         /\ ~Registered(tools', call'.tool.name)

\* C11: at every moment config.tools holds exactly the descriptors of the
\* registry Map, in the order of getTools(), one entry per tool name;
\* registerTool of a registered name replaces its entry, and removeTool
\* returns true exactly when the name was registered.
C11_RegistryInSync == []RegistryInSync /\ [][RegistryStep]_vars

\* The host registered its own descriptor under the name of a built-in tool,
\* which took the built-in's place in config.tools.
C11_Witness ==
    /\ call.op = "registerTool" /\ call.had
    /\ call.tool.origin = "host"
    /\ Len(configTools) = 2
    /\ configTools[1] = call.tool
    /\ configTools[2].name = TemplateToolName

----------------------------------------------------------------------------
(* C12 *)

BuiltinNames == {Manifests[i].name : i \in 1..Len(Manifests)}

\* The names registered, and the descriptor filed under a registered name.
NamesIn(entries) == {entries[i].key : i \in 1..Len(entries)}

BoundTo(entries, name) ==
    entries[CHOOSE i \in 1..Len(entries) : entries[i].key = name].value

\* The set of names and the origin of the descriptor under each name stay.
SameNamesAndOrigins ==
    /\ NamesIn(tools') = NamesIn(tools)
    /\ \A n \in NamesIn(tools) :
         BoundTo(tools', n).origin = BoundTo(tools, n).origin

\* C12 as stated (the descriptors taken up to the identity of the objects):
\* no step other than registerTool and removeTool changes the set of
\* registered names or whose descriptor is bound to a name; init() neither
\* re-adds a removed built-in tool nor replaces a descriptor registered under
\* a built-in name.
C12_OnlyRegisterRemoveChange ==
    [][call'.op \notin {"registerTool", "removeTool"} => SameNamesAndOrigins]_vars

\* What a successful init() does to the registry: every entry keeps its
\* place, the entries of other names are untouched, both built-in names are
\* bound to descriptors built by this run, a built-in name that was missing
\* is added after the entries there were, and config.tools follows.
RebuiltByInit ==
    /\ Len(tools') >= Len(tools)
    /\ \A i \in 1..Len(tools) :
        /\ tools'[i].key = tools[i].key
        /\ tools[i].key \notin BuiltinNames => tools'[i] = tools[i]
    /\ NamesIn(tools') = NamesIn(tools) \cup BuiltinNames
    /\ Len(tools') = Cardinality(NamesIn(tools'))
    /\ \A n \in BuiltinNames :
         BoundTo(tools', n) = [name |-> n, origin |-> "manifest", gen |-> toolGen']
    /\ toolGen' = toolGen + 1
    /\ configTools' = MapValues(tools')

\* C12, amended: the registry changes only through registerTool, removeTool
\* and a successful init(): sends, tool executions and a failed init() leave
\* it unchanged, and a successful init() rebuilds the two built-in
\* descriptors (re-adding a removed one, replacing whatever was registered
\* under a built-in name) and leaves every other entry untouched.
C12_OnlyRegisterRemoveInitChange ==
    [][/\ call'.op \in SendOps \cup {"none"} => UNCHANGED <<tools, configTools>>
       /\ (call'.op = "init" /\ call'.outcome.status = "threw") =>
            UNCHANGED <<tools, configTools>>
       /\ (call'.op = "init" /\ call'.outcome.status = "returned") =>
            RebuiltByInit]_vars

\* A successful init() found the templated tool removed and a host tool
\* registered, re-added the first and kept the second.
C12_Witness ==
    /\ call.op = "init" /\ call.outcome.status = "returned"
    /\ ~Registered(call.before.tools, TemplateToolName)
    /\ Registered(call.before.tools, PingToolName)
    /\ Registered(tools, TemplateToolName)
    /\ BoundTo(tools, PingToolName) = BoundTo(call.before.tools, PingToolName)

----------------------------------------------------------------------------
(* C13 *)

\* The name without its resend_ prefix.
StripPrefix(name) ==
    IF name # <<>> /\ Head(name) = "resend_" THEN Tail(name) ELSE name

\* The gateway methods the last call entered, in order.
MethodsCalled ==
    [i \in 1..Len(call.outcome.calls) |-> call.outcome.calls[i].method]

----------------------------------------------------------------------------
(* C14 *)

\* C14: every send that reaches the provider without an explicit from has a
\* non-empty payload from: the configured defaultFrom when one is set,
\* otherwise the built-in fallback, also on a gateway whose configuration
\* object carries defaultFrom with no value.
C14_SenderNeverEmpty ==
    ((IsRawSend \/ IsTemplateSend) /\ Requests # <<>> /\ call.input.from = Undef) =>
        /\ Truthy(Payload.from)
        /\ Payload.from =
             IF Truthy(Get(resendConfig, "defaultFrom"))
             THEN resendConfig.defaultFrom
             ELSE DefaultFrom

----------------------------------------------------------------------------
(* C15 *)

\* The last call went through the adapter (a plugin method or a descriptor).
IsAdapterCall == call.op \in SendOps \ GatewayOps

\* The options the adapter handed to the gateway's method.
Forwarded == call.outcome.calls[1].options

RawForwardedKeys ==
    {"to", "subject", "html", "text", "from", "replyTo", "cc", "bcc"}

TemplateForwardedKeys ==
    {"to", "templateId", "templateData", "from", "replyTo", "cc", "bcc"}

====
